---- MODULE Spec2Model ----
(***************************************************************************)
(* Model of iotlabcli/experiment.py: the experiment description builder    *)
(* (_Experiment), the association maps it feeds, the state poller          *)
(* (wait_state), the AliasNodes constructor, submit_experiment,            *)
(* _files_with_filespath and get_experiment; submit_experiment and         *)
(* get_experiment of iotlabcli/experiment_parser.py as well.               *)
(*                                                                         *)
(* Conventions                                                             *)
(*   - a file path or an association name is the sequence of its           *)
(*     '/'-separated components: "a/fw1.elf" is <<"a", "fw1.elf">>;        *)
(*   - an optional value (Python None or a value) is <<>> or <<value>>;    *)
(*   - a raised exception is a record [kind |-> ..., ...]; NoError is the  *)
(*     normal return.                                                      *)
(***************************************************************************)
EXTENDS Integers, Sequences, FiniteSets, TLC

VARIABLES
    exp,        \* the _Experiment object under construction
    hist,       \* the add_exp_resources calls made so far, with their outcome
    pc,         \* position of the caller of the builder
    desc,       \* json_dumps(experiment), once dumped
    loaded,     \* the _Experiment rebuilt by load_experiment
    redump,     \* json_dumps of the rebuilt experiment
    files,      \* value returned by filenames()
    args,       \* wait_state's arguments: states, step, timeout
    wpc,        \* position of wait_state
    expected_states,
    start_time,
    now,        \* the clock time.time() reads
    fetched,    \* the states state_fct() has returned, in call order
    sleeps,     \* number of time.sleep(step) calls made
    result,     \* what wait_state returned or raised
    _alias,     \* AliasNodes._alias, the class's count of alias numbers
    ctor,       \* the AliasNodes(...) calls completed, with their outcome
    tpc,        \* position of each thread inside AliasNodes.__init__
    tmp,        \* each thread's value under computation in _alias_uid
    sargs,      \* submit_experiment's arguments: resources, print_json
    spc,        \* position of submit_experiment
    exp_files,  \* the files gathered for the submission
    api_calls,  \* the api.submit_experiment(exp_files) calls made
    sresult,    \* what submit_experiment returned or raised
    fargs,      \* _files_with_filespath's arguments: files, filespath
    fpc,        \* position of the caller of _files_with_filespath
    fresult,    \* what _files_with_filespath returned or raised
    gargs,      \* get_experiment's arguments: module, option, exp_id
    gpc,        \* position of the caller of get_experiment
    fs,         \* the files of the current directory: name -> content
    gapi,       \* the api calls get_experiment made, with their answer
    gresult     \* what get_experiment returned

expVars == <<exp, hist, pc, desc, loaded, redump, files>>

waitVars ==
    <<args, wpc, expected_states, start_time, now, fetched, sleeps, result>>

aliasVars == <<_alias, ctor, tpc, tmp>>

subVars == <<sargs, spc, exp_files, api_calls, sresult>>

fwfVars == <<fargs, fpc, fresult>>

getVars == <<gargs, gpc, fs, gapi, gresult>>

vars == <<expVars, waitVars, aliasVars, subVars, fwfVars, getVars>>

\* what the steps of one part leave alone
nonExpVars == <<waitVars, aliasVars, subVars, fwfVars, getVars>>

nonWaitVars == <<expVars, aliasVars, subVars, fwfVars, getVars>>

nonAliasVars == <<expVars, waitVars, subVars, fwfVars, getVars>>

\* submit_experiment works on the experiment `exp` and is recorded in `hist`
nonSubVars ==
    <<pc, desc, loaded, redump, files, waitVars, aliasVars, fwfVars,
      getVars>>

nonFwfVars == <<expVars, waitVars, aliasVars, subVars, getVars>>

nonGetVars == <<expVars, waitVars, aliasVars, subVars, fwfVars>>

(***************************************************************************)
(* Bounds                                                                  *)
(***************************************************************************)
\* number of add_exp_resources calls made on one experiment
MaxCalls == 3

\* number of state_fct() calls of one wait_state run
MaxPolls == 3

\* largest finite timeout and largest step passed to wait_state, in seconds
MaxTimeout == 2

MaxStep == 2

\* largest time, in seconds, the statements between two readings of the
\* clock take besides the sleep
MaxDelay == 1

\* number of AliasNodes(...) calls made in one process
MaxCtor == 3

\* number of threads that build AliasNodes
NThreads == 2

\* length of the `resources` list given to submit_experiment
MaxGroups == 2

\* lengths of the `files` and `filespath` lists given to
\* _files_with_filespath
MaxFiles == 4

MaxPaths == 2

\* add_exp_resources calls made on one experiment, each call's experiment kept
MaxAdds == 2

(***************************************************************************)
(* Optional values and generic sequence helpers                            *)
(***************************************************************************)
None == <<>>

Some(x) == <<x>>

IsNone(o) == o = <<>>

Val(o) == o[1]

SeqToSet(s) == {s[i] : i \in 1..Len(s)}

\* list(...) without repetition, first occurrence kept
RECURSIVE Dedup(_)
Dedup(s) ==
    IF s = <<>> THEN <<>>
    ELSE LET init == Dedup(SubSeq(s, 1, Len(s) - 1))
             last == s[Len(s)]
         IN  IF last \in SeqToSet(init) THEN init ELSE Append(init, last)

NoDuplicates(s) == \A i, j \in 1..Len(s) : s[i] = s[j] => i = j

(***************************************************************************)
(* Node addresses and their ordering (helpers.node_url_sort_key)           *)
(***************************************************************************)
\* The node urls the resource groups are drawn from, with the fields
\* '<type>-<num>.<domain>.iot-lab.info' splits into.
NodeUrlFields ==
    [ m3_1_grenoble  |-> <<"m3", "1",  "grenoble">>,
      m3_2_grenoble  |-> <<"m3", "2",  "grenoble">>,
      m3_10_grenoble |-> <<"m3", "10", "grenoble">>,
      a8_3_grenoble  |-> <<"a8", "3",  "grenoble">>,
      m3_1_lille     |-> <<"m3", "1",  "lille">> ]

NodeUrls == DOMAIN NodeUrlFields

\* int(num_str)
StrToInt(s) ==
    CASE s = "1" -> 1 [] s = "2" -> 2 [] s = "3" -> 3 [] s = "10" -> 10

\* rank of a string among the strings of the model, in Python's str order
StrRank(s) ==
    CASE s = "1" -> 1 [] s = "10" -> 2 [] s = "2" -> 3 [] s = "3" -> 4
      [] s = "a" -> 5 [] s = "a8" -> 6 [] s = "b" -> 7 [] s = "c" -> 8
      [] s = "dir" -> 9 [] s = "fw1.elf" -> 10 [] s = "fw2.elf" -> 11
      [] s = "grenoble" -> 12 [] s = "lille" -> 13 [] s = "m3" -> 14
      [] s = "sub" -> 15

\* node_url_sort_key: (domain, node_type, int(num))
node_url_sort_key(url) ==
    LET f == NodeUrlFields[url]
    IN  <<f[3], f[1], StrToInt(f[2])>>

\* Python's tuple comparison k1 < k2 of two sort keys
KeyLess(k1, k2) ==
    \/ StrRank(k1[1]) < StrRank(k2[1])
    \/ /\ k1[1] = k2[1]
       /\ \/ StrRank(k1[2]) < StrRank(k2[2])
          \/ k1[2] = k2[2] /\ k1[3] < k2[3]

\* sorted(list(set), key=node_url_sort_key); urls with equal keys do not
\* occur in NodeUrls, so the result is unique
RECURSIVE SortedUrls(_)
SortedUrls(S) ==
    IF S = {} THEN <<>>
    ELSE LET m == CHOOSE x \in S :
                    \A y \in S \ {x} :
                        KeyLess(node_url_sort_key(x), node_url_sort_key(y))
         IN  <<m>> \o SortedUrls(S \ {m})

(***************************************************************************)
(* Paths and association names                                             *)
(***************************************************************************)
\* os.path.basename: what follows the last '/'
basename(path) == IF path = <<>> THEN <<>> ELSE <<path[Len(path)]>>

\* NODES_ASSOCIATIONS_FILE_ASSOCS = ('firmware',)
NODES_ASSOCIATIONS_FILE_ASSOCS == {"firmware"}

\* _basename_if_in(value, key, container)
_basename_if_in(value, key, container) ==
    IF key \in container THEN basename(value) ELSE value

\* a slip that would path-normalise no association type
Mutant_nodes_association_name(assoctype, assocname) == assocname

nodes_association_name(assoctype, assocname) ==
    _basename_if_in(assocname, assoctype, NODES_ASSOCIATIONS_FILE_ASSOCS)

(***************************************************************************)
(* AssociationsMap (iotlabcli.associations)                                *)
(*   [assoctype, entries]: entries is the ordered sequence of              *)
(*   [name, nodes], one per value name, in first-seen order.               *)
(***************************************************************************)
AssociationsMap(assoctype) == [assoctype |-> assoctype, entries |-> <<>>]

\* keys(): the value names, in insertion order
Keys(m) == [i \in 1..Len(m.entries) |-> m.entries[i].name]

\* the node references held under value name `key` ({} when absent)
NodesOf(m, key) ==
    UNION {SeqToSet(m.entries[i].nodes) :
             i \in {j \in 1..Len(m.entries) : m.entries[j].name = key}}

\* the node-set of a value: node urls sorted by node_url_sort_key, alias
\* ids in insertion order, no reference twice
OrderRefs(refs) ==
    IF SeqToSet(refs) \subseteq NodeUrls
    THEN SortedUrls(SeqToSet(refs))
    ELSE Dedup(refs)

\* extendvalues raises: a reference is already held under another name
extend_conflict(m, key, values) ==
    \E i \in 1..Len(m.entries) :
        /\ m.entries[i].name # key
        /\ SeqToSet(m.entries[i].nodes) \cap SeqToSet(values) # {}

\* extendvalues(key, values), when it does not raise
extendvalues(m, key, values) ==
    IF \E i \in 1..Len(m.entries) : m.entries[i].name = key
    THEN [m EXCEPT !.entries =
            [i \in 1..Len(m.entries) |->
                IF m.entries[i].name = key
                THEN [m.entries[i] EXCEPT
                        !.nodes = OrderRefs(m.entries[i].nodes \o values)]
                ELSE m.entries[i]]]
    ELSE [m EXCEPT !.entries =
            Append(m.entries, [name |-> key, nodes |-> OrderRefs(values)])]

\* list(): the serialized form, one dict {<assoctype>name, nodes} per entry
assoc_list(m) ==
    [i \in 1..Len(m.entries) |->
        [namekey |-> m.assoctype,
         name    |-> m.entries[i].name,
         nodes   |-> m.entries[i].nodes]]

\* AssociationsMap.from_list(assoclist, assoctype): None stays None (the
\* attribute filenames() has to handle), no conflict validation
from_list(assoclist, assoctype) ==
    IF IsNone(assoclist) THEN None
    ELSE Some([assoctype |-> assoctype,
               entries |-> [i \in 1..Len(Val(assoclist)) |->
                              [name  |-> Val(assoclist)[i].name,
                               nodes |-> Val(assoclist)[i].nodes]]])

\* associationsmapdict_from_dict(assocsdict)
associationsmapdict_from_dict(assocsdict) ==
    IF IsNone(assocsdict) THEN None
    ELSE Some([t \in DOMAIN Val(assocsdict) |->
                 Val(from_list(Some(Val(assocsdict)[t]), t))])

(***************************************************************************)
(* AliasNodes objects and resource groups                                  *)
(***************************************************************************)
\* the object AliasNodes.__init__ leaves, `alias` being _alias_uid's result
AliasNodesObj(nbnodes, site, archi, mobile, alias) ==
    [py         |-> "AliasNodes",
     alias      |-> alias,
     nbnodes    |-> nbnodes,
     properties |-> [archi |-> archi, site |-> site, mobile |-> mobile]]

\* a Python list of node urls
PyList(items) == [py |-> "list", items |-> items]

\* exp_resources(nodes, firmware_path, profile_name, **associations);
\* associations is the sequence of the <<assoctype, assocname>> items
exp_resources(nodes, firmware_path, profile_name, associations) ==
    [type         |-> IF nodes.py = "AliasNodes" THEN "alias" ELSE "physical",
     nodes        |-> nodes,
     firmware     |-> firmware_path,
     profile      |-> profile_name,
     associations |-> associations]

(***************************************************************************)
(* Exceptions                                                              *)
(***************************************************************************)
NoError == [kind |-> "none", msg |-> "", nodes |-> {}]

\* ValueError of _set_type
ModeConflictError ==
    [kind  |-> "ValueError",
     msg   |-> "Invalid experiment, should be only physical or only alias",
     nodes |-> {}]

\* ValueError of set_physical_nodes, with the nodes its message lists
DuplicateNodeError(intersect) ==
    [kind  |-> "ValueError",
     msg   |-> "Nodes specified multiple times",
     nodes |-> intersect]

\* the association map's error; msg names the association type
ConflictError(assoctype) ==
    [kind |-> "ConflictError", msg |-> assoctype, nodes |-> {}]

(***************************************************************************)
(* _Experiment                                                             *)
(***************************************************************************)
\* _Experiment.__init__
_Experiment(name, duration, reservation) ==
    [duration             |-> duration,
     reservation          |-> reservation,
     name                 |-> name,
     type                 |-> None,
     nodes                |-> <<>>,
     firmwareassociations |-> None,
     profileassociations  |-> None,
     associations         |-> None]

\* setattr_if_none(obj, attr, default): the attribute's value after update
setattr_if_none(current, default) ==
    IF IsNone(current) THEN Some(default) ELSE current

\* a slip that would let a later group overwrite the type
Mutant_set_type_raises(e, exp_type) == FALSE

\* _set_type raises
_set_type_raises(e, exp_type) ==
    ~IsNone(e.type) /\ Val(e.type) # exp_type

\* _set_type, when it does not raise
_set_type(e, exp_type) == [e EXCEPT !.type = Some(exp_type)]

\* a slip that would report the whole new group
Mutant_physical_intersect(e, nodes_list) ==
    IF SeqToSet(e.nodes) \cap SeqToSet(nodes_list.items) = {} THEN {}
    ELSE SeqToSet(nodes_list.items)

\* set_physical_nodes: the nodes already present
physical_intersect(e, nodes_list) ==
    SeqToSet(e.nodes) \cap SeqToSet(nodes_list.items)

\* a slip that would extend the list without making it unique and sorted
Mutant_set_physical_nodes(e, nodes_list) ==
    IF physical_intersect(e, nodes_list) # {}
    THEN [exp |-> e,
          err |-> DuplicateNodeError(physical_intersect(e, nodes_list))]
    ELSE [exp |-> [e EXCEPT !.nodes = e.nodes \o nodes_list.items],
          err |-> NoError]

\* a change that would also refuse a list naming a node twice
Mutant_set_physical_nodes_strict(e, nodes_list) ==
    IF physical_intersect(e, nodes_list) # {}
    THEN [exp |-> e,
          err |-> DuplicateNodeError(physical_intersect(e, nodes_list))]
    ELSE IF ~NoDuplicates(nodes_list.items)
         THEN [exp |-> e,
               err |-> DuplicateNodeError(SeqToSet(nodes_list.items))]
         ELSE [exp |-> [e EXCEPT !.nodes =
                          SortedUrls(SeqToSet(e.nodes \o nodes_list.items))],
               err |-> NoError]

\* set_physical_nodes
set_physical_nodes(e, nodes_list) ==
    IF _set_type_raises(e, "physical")
    THEN [exp |-> e, err |-> ModeConflictError]
    ELSE LET e1        == _set_type(e, "physical")
             intersect == physical_intersect(e1, nodes_list)
         IN  IF intersect # {}
             THEN [exp |-> e1, err |-> DuplicateNodeError(intersect)]
             ELSE [exp |-> [e1 EXCEPT !.nodes =
                              SortedUrls(SeqToSet(e1.nodes \o nodes_list.items))],
                   err |-> NoError]

\* a check that would keep one entry per alias id
Mutant_set_alias_nodes(e, alias_nodes) ==
    IF _set_type_raises(e, "alias")
    THEN [exp |-> e, err |-> ModeConflictError]
    ELSE [exp |-> [_set_type(e, "alias") EXCEPT
                     !.nodes =
                        IF \E i \in 1..Len(e.nodes) :
                               e.nodes[i].alias = alias_nodes.alias
                        THEN e.nodes
                        ELSE Append(e.nodes, alias_nodes)],
          err |-> NoError]

\* set_alias_nodes
set_alias_nodes(e, alias_nodes) ==
    IF _set_type_raises(e, "alias")
    THEN [exp |-> e, err |-> ModeConflictError]
    ELSE [exp |-> [_set_type(e, "alias") EXCEPT
                     !.nodes = Append(e.nodes, alias_nodes)],
          err |-> NoError]

\* self._register_nodes(nodes): the method chosen by the experiment's type
_register_nodes(e, nodes) ==
    IF Val(e.type) = "physical"
    THEN set_physical_nodes(e, nodes)
    ELSE set_alias_nodes(e, nodes)

\* a slip that would associate no reference
Mutant_nodes_to_assoc(e, nodes) == <<>>

\* _nodes_to_assoc
_nodes_to_assoc(e, nodes) ==
    IF Val(e.type) = "alias" THEN <<nodes.alias>> ELSE nodes.items

\* self._firmwareassociations().extendvalues(name, nodes), after step r
extend_firmware(r, name, nodes) ==
    IF r.err # NoError THEN r
    ELSE LET m == setattr_if_none(r.exp.firmwareassociations,
                                  AssociationsMap("firmware"))
             e == [r.exp EXCEPT !.firmwareassociations = m]
         IN  IF extend_conflict(Val(m), name, nodes)
             THEN [exp |-> e, err |-> ConflictError("firmware")]
             ELSE [exp |-> [e EXCEPT !.firmwareassociations =
                              Some(extendvalues(Val(m), name, nodes))],
                   err |-> NoError]

\* self._profileassociations().extendvalues(name, nodes), after step r
extend_profile(r, name, nodes) ==
    IF r.err # NoError THEN r
    ELSE LET m == setattr_if_none(r.exp.profileassociations,
                                  AssociationsMap("profile"))
             e == [r.exp EXCEPT !.profileassociations = m]
         IN  IF extend_conflict(Val(m), name, nodes)
             THEN [exp |-> e, err |-> ConflictError("profile")]
             ELSE [exp |-> [e EXCEPT !.profileassociations =
                              Some(extendvalues(Val(m), name, nodes))],
                   err |-> NoError]

\* dict.setdefault(key, default): the dict after the call
SetDefault(d, key, default) ==
    [k \in DOMAIN d \cup {key} |-> IF k \in DOMAIN d THEN d[k] ELSE default]

\* _add_nodes_association(nodes, assoctype, assocname), after step r
_add_nodes_association(r, nodes, assoctype, assocname) ==
    IF r.err # NoError THEN r
    ELSE LET name   == nodes_association_name(assoctype, assocname)
             assocs == SetDefault(Val(setattr_if_none(r.exp.associations, <<>>)),
                                  assoctype, AssociationsMap(assoctype))
             e      == [r.exp EXCEPT !.associations = Some(assocs)]
         IN  IF extend_conflict(assocs[assoctype], name, nodes)
             THEN [exp |-> e, err |-> ConflictError(assoctype)]
             ELSE [exp |-> [e EXCEPT !.associations =
                              Some([assocs EXCEPT ![assoctype] =
                                      extendvalues(assocs[assoctype], name, nodes)])],
                   err |-> NoError]

\* for assoctype, assocname in associations.items(): _add_nodes_association
RECURSIVE add_associations(_, _, _)
add_associations(r, nodes, items) ==
    IF items = <<>> THEN r
    ELSE add_associations(
             _add_nodes_association(r, nodes, items[1][1], items[1][2]),
             nodes, Tail(items))

\* a slip that would undo the whole call when any of its steps raises
Mutant_add_exp_resources_undone(e, resources) ==
    IF _set_type_raises(e, resources.type)
    THEN [exp |-> e, err |-> ModeConflictError]
    ELSE LET r1 == _register_nodes(_set_type(e, resources.type), resources.nodes)
         IN  IF r1.err # NoError THEN [exp |-> e, err |-> r1.err]
             ELSE LET nodes == _nodes_to_assoc(r1.exp, resources.nodes)
                      r2 == IF IsNone(resources.firmware) THEN r1
                            ELSE extend_firmware(r1,
                                     nodes_association_name("firmware",
                                         Val(resources.firmware)), nodes)
                      r3 == IF IsNone(resources.profile) THEN r2
                            ELSE extend_profile(r2,
                                     nodes_association_name("profile",
                                         Val(resources.profile)), nodes)
                      r4 == add_associations(r3, nodes, resources.associations)
                  IN  IF r4.err # NoError THEN [exp |-> e, err |-> r4.err]
                      ELSE r4

\* add_exp_resources: the experiment it leaves and the exception it raises
add_exp_resources(e, resources) ==
    IF _set_type_raises(e, resources.type)
    THEN [exp |-> e, err |-> ModeConflictError]
    ELSE LET r1 == _register_nodes(_set_type(e, resources.type), resources.nodes)
         IN  IF r1.err # NoError THEN r1
             ELSE LET nodes == _nodes_to_assoc(r1.exp, resources.nodes)
                      r2 == IF IsNone(resources.firmware) THEN r1
                            ELSE extend_firmware(r1,
                                     nodes_association_name("firmware",
                                         Val(resources.firmware)), nodes)
                      r3 == IF IsNone(resources.profile) THEN r2
                            ELSE extend_profile(r2,
                                     nodes_association_name("profile",
                                         Val(resources.profile)), nodes)
                  IN  add_associations(r3, nodes, resources.associations)

\* a slip that would list the profiles instead of the firmwares
Mutant_filenames(e) ==
    IF IsNone(e.profileassociations) THEN <<>>
    ELSE Keys(Val(e.profileassociations))

\* filenames()
filenames(e) ==
    IF IsNone(e.firmwareassociations) THEN <<>>
    ELSE Keys(Val(e.firmwareassociations))

(***************************************************************************)
(* Serialization: helpers.json_dumps(experiment) and from_dict             *)
(***************************************************************************)
\* a node of the description: a url, or the dict of an AliasNodes object
dump_node(n, exp_type) ==
    IF exp_type = Some("alias")
    THEN [alias |-> n.alias, nbnodes |-> n.nbnodes, properties |-> n.properties]
    ELSE n

dump_assocs(m) == IF IsNone(m) THEN None ELSE Some(assoc_list(Val(m)))

\* json_dumps(experiment): the description, attribute by attribute
json_dumps(e) ==
    [duration             |-> e.duration,
     reservation          |-> e.reservation,
     name                 |-> e.name,
     type                 |-> e.type,
     nodes                |-> [i \in 1..Len(e.nodes) |->
                                 dump_node(e.nodes[i], e.type)],
     firmwareassociations |-> dump_assocs(e.firmwareassociations),
     profileassociations  |-> dump_assocs(e.profileassociations),
     associations         |->
         IF IsNone(e.associations) THEN None
         ELSE Some([t \in DOMAIN Val(e.associations) |->
                      assoc_list(Val(e.associations)[t])])]

\* _load_assocs
_load_assocs(e, firmwareassociations, profileassociations, associations) ==
    [e EXCEPT
       !.firmwareassociations = from_list(firmwareassociations, "firmware"),
       !.profileassociations  = from_list(profileassociations, "profile"),
       !.associations         = associationsmapdict_from_dict(associations)]

\* a slip that would drop the profile associations on reload
Mutant_from_dict(exp_dict) ==
    LET experiment == _Experiment(exp_dict.name, exp_dict.duration,
                                  exp_dict.reservation)
    IN  _load_assocs([experiment EXCEPT !.type  = exp_dict.type,
                                        !.nodes = exp_dict.nodes],
                     exp_dict.firmwareassociations, None,
                     exp_dict.associations)

\* _Experiment.from_dict
from_dict(exp_dict) ==
    LET experiment == _Experiment(exp_dict.name, exp_dict.duration,
                                  exp_dict.reservation)
    IN  _load_assocs([experiment EXCEPT !.type  = exp_dict.type,
                                        !.nodes = exp_dict.nodes],
                     exp_dict.firmwareassociations,
                     exp_dict.profileassociations,
                     exp_dict.associations)

(***************************************************************************)
(* Inputs: the resource groups a caller passes to add_exp_resources        *)
(***************************************************************************)
\* node lists: unsorted, overlapping one another, naming a node twice,
\* spanning two sites and two architectures
NodeLists ==
    { <<"m3_2_grenoble", "m3_1_grenoble">>,
      <<"m3_10_grenoble", "m3_2_grenoble">>,
      <<"m3_1_grenoble", "m3_1_grenoble">>,
      <<"m3_1_lille", "a8_3_grenoble">> }

\* AliasNodes objects: two with automatic ids, one built with _alias='1'
AliasObjects ==
    { AliasNodesObj(5, "grenoble", "m3:at86rf231", FALSE, "1"),
      AliasNodesObj(2, "lille", "wsn430:cc1101", TRUE, "2"),
      AliasNodesObj(1, "lille", "a8:at86rf231", FALSE, "1") }

\* firmware paths: two of them share a basename
\* what a group attaches to its nodes: <<firmware, profile, associations>>,
\* associations being the <<assoctype, assocname>> keyword arguments.  Two
\* firmware paths share a basename; profile and mobility names hold a '/'.
Attachments ==
    { <<None, None, <<>> >>,
      <<Some(<<"a", "fw1.elf">>), Some(<<"dir", "p1">>),
        << <<"mobility", <<"m", "1">> >> >> >>,
      <<Some(<<"b", "fw1.elf">>), Some(<<"p2">>), <<>> >>,
      <<Some(<<"fw2.elf">>), None, << <<"mobility", <<"m2">> >> >> >> }

Resources ==
    { exp_resources(n, a[1], a[2], a[3]) :
        n \in {PyList(l) : l \in NodeLists} \cup AliasObjects,
        a \in Attachments }

(***************************************************************************)
(* AliasNodes: architectures and alias numbers                             *)
(*   - a string the regular expression reads is the sequence of its        *)
(*     characters;                                                         *)
(*   - a Python int or str given as _alias is a record PyInt(n), PyStr(s). *)
(***************************************************************************)
\* ARCHIS, each pattern as the sequence of its characters
ARCHIS ==
    << <<"w", "s", "n", "4", "3", "0", ":", "c", "c", "1", "1", "0", "1">>,
       <<"w", "s", "n", "4", "3", "0", ":", "c", "c", "2", "4", "2", "0">>,
       <<"m", "3", ":", "a", "t", "8", "6", "r", "f", "2", "3", "1">>,
       <<"a", "8", ":", "a", "t", "8", "6", "r", "f", "2", "3", "1">>,
       <<"d", "e", "s", ":", "w", "i", "f", "i", "-", "c", "c", "1", "1", "0", "0">>,
       <<"c", "u", "s", "t", "o", "m", ":", ".", "*">> >>

\* one pattern character against one character: '.' is any character but a
\* newline
re_char(p, c) == IF p = "." THEN c /= "\n" ELSE p = c

\* the pattern (characters, '.', and 'x*' repetitions) matches a prefix of s
RECURSIVE re_match_here(_, _)
re_match_here(pat, s) ==
    IF pat = <<>> THEN TRUE
    ELSE IF Len(pat) >= 2 /\ pat[2] = "*"
    THEN \E k \in 0..Len(s) :
            /\ \A i \in 1..k : re_char(pat[1], s[i])
            /\ re_match_here(SubSeq(pat, 3, Len(pat)),
                             SubSeq(s, k + 1, Len(s)))
    ELSE /\ s /= <<>>
         /\ re_char(pat[1], s[1])
         /\ re_match_here(Tail(pat), Tail(s))

\* ARCHI_RE.match(archi), ARCHI_RE being '(a1)|(a2)|...' over ARCHIS:
\* re.match looks for a match at the start of the string
ARCHI_RE_match(archi) ==
    \E i \in 1..Len(ARCHIS) : re_match_here(ARCHIS[i], archi)

\* _valid_archi(archi)
_valid_archi(archi) == ARCHI_RE_match(archi)

PyInt(n) == [py |-> "int", int |-> n, str |-> ""]

PyStr(t) == [py |-> "str", int |-> 0, str |-> t]

\* the decimal digits
Digits == <<"0", "1", "2", "3", "4", "5", "6", "7", "8", "9">>

\* str(n) of a natural number
RECURSIVE IntToStr(_)
IntToStr(n) ==
    IF n < 10 THEN Digits[n + 1]
    ELSE IntToStr(n \div 10) \o Digits[(n % 10) + 1]

\* str(value)
str(value) == IF value.py = "int" THEN IntToStr(value.int) ELSE value.str

\* a slip that would count the explicit aliases too
Mutant_alias_uid(counter, alias) ==
    [counter |-> counter + 1,
     alias   |-> IF IsNone(alias) THEN str(PyInt(counter + 1))
                 ELSE str(Val(alias))]

\* _alias_uid(alias), run without interruption: the class counter it leaves
\* and the string it returns
_alias_uid(counter, alias) ==
    IF IsNone(alias)
    THEN [counter |-> counter + 1, alias |-> str(PyInt(counter + 1))]
    ELSE [counter |-> counter, alias |-> str(Val(alias))]

\* AliasNodes(nbnodes, site, archi, mobile, _alias) run without
\* interruption: ValueError, or the object and the class counter
AliasNodes_init(counter, nbnodes, site, archi, mobile, alias) ==
    IF ~_valid_archi(archi)
    THEN [counter |-> counter, raised |-> TRUE, obj |-> None]
    ELSE LET uid == _alias_uid(counter, alias)
         IN  [counter |-> uid.counter,
              raised  |-> FALSE,
              obj     |-> Some(AliasNodesObj(nbnodes, site, archi, mobile,
                                             uid.alias))]

\* one completed call of the constructor
CtorCall(archi, alias, r) ==
    [archi |-> archi, given |-> alias, raised |-> r.raised, obj |-> r.obj]

\* the architectures given: two of the list, a custom one, two that are not
\* in the list, one of the list followed by one more character, 'custom:'
ArchiInputs ==
    { <<"w", "s", "n", "4", "3", "0", ":", "c", "c", "1", "1", "0", "1">>,
      <<"m", "3", ":", "a", "t", "8", "6", "r", "f", "2", "3", "1">>,
      <<"c", "u", "s", "t", "o", "m", ":", "m", "3", ":", "c", "c", "1", "1", "0", "1">>,
      <<"w", "s", "n", "4", "3", "0", ":", "c", "c", "1", "1", "0", "0">>,
      <<"d", "e", "s">>,
      <<"w", "s", "n", "4", "3", "0", ":", "c", "c", "1", "1", "0", "1", "x">>,
      <<"c", "u", "s", "t", "o", "m", ":">> }

\* the _alias arguments given: none, '2', 1
AliasArgs == {None, Some(PyStr("2")), Some(PyInt(1))}

\* the threads that build AliasNodes
Threads == 1..NThreads

\* no AliasNodes built yet in this process
AliasIdle ==
    /\ _alias = 0
    /\ ctor = <<>>
    /\ tpc = [t \in Threads |-> "idle"]
    /\ tmp = [t \in Threads |-> 0]

(***************************************************************************)
(* submit_experiment (experiment.py and experiment_parser.py)              *)
(***************************************************************************)
\* helpers.FilesDict() / {}: the firmware files to send and, under
\* EXP_FILENAME, the experiment description
FilesDict == [files |-> {}, new_exp |-> None]

\* exp_files.add_files_from_dict(NODES_ASSOCIATIONS_FILE_ASSOCS, res_dict)
\* / helpers.add_to_dict_uniq(exp_files, **firmware), when it returns
add_files_from_dict(d, res_dict) ==
    IF IsNone(res_dict.firmware) THEN d
    ELSE [d EXCEPT !.files = @ \cup {Val(res_dict.firmware)}]

\* exceptions that cross submit_experiment
EmptyResourcesError == [kind |-> "AssertionError", msg |-> "", nodes |-> {}]

FileError == [kind |-> "FileError", msg |-> "", nodes |-> {}]

TransportError == [kind |-> "TransportError", msg |-> "", nodes |-> {}]

\* what submit_experiment gives its caller
SubmitRaised(err) == [kind |-> "raise", value |-> None, err |-> err]

SubmitReturnedExperiment(e) ==
    [kind |-> "experiment", value |-> Some(e), err |-> NoError]

SubmitReturnedResponse ==
    [kind |-> "response", value |-> None, err |-> NoError]

NoSubmitResult == [kind |-> "none", value |-> None, err |-> NoError]

\* a slip that would submit an experiment that is only to be printed
Mutant_after_loop(print_json) == "submit"

\* `if print_json: return experiment`, else the submission
after_loop(print_json) == IF print_json THEN "return" ELSE "submit"

\* the `resources` lists given: up to MaxGroups groups, the empty list too
ResourcesLists == UNION {[1..n -> Resources] : n \in 0..MaxGroups}

\* submit_experiment is not running
SubmitIdle ==
    /\ sargs = [impl |-> "experiment", resources |-> <<>>,
                print_json |-> FALSE]
    /\ spc = "idle"
    /\ exp_files = FilesDict
    /\ api_calls = <<>>
    /\ sresult = NoSubmitResult

(***************************************************************************)
(* _files_with_filespath                                                   *)
(***************************************************************************)
\* Python's p < q of two paths.  No component of the model's paths is the
\* start of another one, so the order of the strings is the order of their
\* component sequences, a path coming before the paths it is the start of
RECURSIVE PathLess(_, _)
PathLess(p, q) ==
    IF p = <<>> THEN q /= <<>>
    ELSE IF q = <<>> THEN FALSE
    ELSE IF p[1] = q[1] THEN PathLess(Tail(p), Tail(q))
    ELSE StrRank(p[1]) < StrRank(q[1])

\* p put at its place in a sorted list
RECURSIVE InsertPath(_, _)
InsertPath(p, paths) ==
    IF paths = <<>> THEN <<p>>
    ELSE IF PathLess(paths[1], p)
    THEN <<paths[1]>> \o InsertPath(p, Tail(paths))
    ELSE <<p>> \o paths

\* sorted(paths)
RECURSIVE sorted(_)
sorted(paths) ==
    IF paths = <<>> THEN <<>>
    ELSE InsertPath(paths[1], sorted(Tail(paths)))

\* the elements of a set, in the order the iteration gives them
RECURSIVE SetToSeq(_)
SetToSeq(S) ==
    IF S = {} THEN <<>>
    ELSE LET x == CHOOSE y \in S : TRUE
         IN  <<x>> \o SetToSeq(S \ {x})

\* dict(((basename(f), f) for f in filespath)): of two paths with the same
\* basename the later one stays
filespathdict(filespath) ==
    [k \in {basename(filespath[i]) : i \in 1..Len(filespath)} |->
        filespath[CHOOSE i \in 1..Len(filespath) :
                      /\ basename(filespath[i]) = k
                      /\ \A j \in (i + 1)..Len(filespath) :
                            basename(filespath[j]) /= k]]

\* filespathdict.pop(f, f): the value popped
pop_or_default(d, f) == IF f \in DOMAIN d THEN d[f] ELSE f

\* what _files_with_filespath gives its caller
FilesRaised == [raised |-> TRUE, value |-> <<>>]

FilesReturned(value) == [raised |-> FALSE, value |-> value]

\* a slip that would forget the paths left in filespath
Mutant_files_with_filespath(file_names, filespath) ==
    LET d == filespathdict(filespath)
        order == SetToSeq(SeqToSet(file_names))
    IN  FilesReturned(sorted([i \in 1..Len(order) |->
                                 pop_or_default(d, order[i])]))

\* _files_with_filespath(files, filespath)
_files_with_filespath(file_names, filespath) ==
    LET d == filespathdict(filespath)
        order == SetToSeq(SeqToSet(file_names))
        updatedfiles == [i \in 1..Len(order) |-> pop_or_default(d, order[i])]
        remaining == DOMAIN d \ SeqToSet(file_names)
    IN  IF remaining /= {} THEN FilesRaised
        ELSE FilesReturned(sorted(updatedfiles))

\* the file names and the paths given
FileNames == {<<"a">>, <<"b">>, <<"c">>}

FilePaths == {<<"dir", "a">>, <<"dir", "c">>, <<"sub", "a">>, <<"b">>}

\* _files_with_filespath is not running
FilesIdle ==
    /\ fargs = [files |-> <<>>, filespath |-> <<>>]
    /\ fpc = "idle"
    /\ fresult = FilesReturned(<<>>)

(***************************************************************************)
(* get_experiment (experiment.py and experiment_parser.py).  A Python      *)
(* value is a record: a str, the bytes or the decoded answer of the        *)
(* server, or a bound method of the api object.                            *)
(***************************************************************************)
Str(t) == [py |-> "str", v |-> t]

Bytes(t) == [py |-> "bytes", v |-> t]

Json(t) == [py |-> "json", v |-> t]

Method(t) == [py |-> "method", v |-> t]

\* '%s.tar.gz' % exp_id
archive_name(exp_id) == IntToStr(exp_id) \o ".tar.gz"

\* _write_experiment_archive(exp_id, data) /
\* helpers.write_experiment_archive: the directory it leaves
_write_experiment_archive(directory, exp_id, data) ==
    [n \in DOMAIN directory \cup {archive_name(exp_id)} |->
        IF n = archive_name(exp_id) THEN data.v ELSE directory[n]]

\* the options of experiment.py's get_experiment
GetOptions == {"", "resources", "id", "state", "data", "start"}

\* the commands of experiment_parser.py's get_experiment
GetCommands ==
    {"archive", "print", "resources_exp_id", "exp_state", "resources"}

\* the dict of experiment_parser.py's get_experiment: command -> method
command_method(command) ==
    CASE command = "archive" -> Method("get_experiment_archive")
      [] command = "print" -> Method("get_experiment")
      [] command = "resources_exp_id" -> Method("get_experiment_resources_id")
      [] command = "exp_state" -> Method("get_experiment_state")
      [] command = "resources" -> Method("get_experiment_resources")

\* what the server may answer: the bytes of an archive, or a decoded answer
ApiAnswers(archive) ==
    IF archive THEN {Bytes("tgz1"), Bytes("tgz2")}
    ELSE {Json("answer1"), Json("answer2")}

\* experiment.py: result = api.get_experiment_info(exp_id, option), then
\* `if option == 'data'`: the directory left and the value returned
get_experiment(directory, exp_id, option, answer) ==
    IF Str(option) = Str("data")
    THEN [fs     |-> _write_experiment_archive(directory, exp_id, answer),
          result |-> Str("Written")]
    ELSE [fs |-> directory, result |-> answer]

\* experiment_parser.py: command = {...}[command]; result = command(exp_id),
\* then `if command == 'archive'`, command being the method by now
parser_get_experiment(directory, exp_id, command, answer) ==
    LET rebound == command_method(command)
    IN  IF rebound = Str("archive")
        THEN [fs     |-> _write_experiment_archive(directory, exp_id, answer),
              result |-> Str("Written")]
        ELSE [fs |-> directory, result |-> answer]

\* the directory before the call: empty, or holding an older archive
NoFile == [n \in {} |-> ""]

Directories == {NoFile, [n \in {"7.tar.gz"} |-> "old"]}

\* get_experiment is not running
GetIdle ==
    /\ gargs = [impl |-> "experiment", option |-> "", exp_id |-> 7,
                directory |-> NoFile]
    /\ gpc = "idle"
    /\ fs = NoFile
    /\ gapi = <<>>
    /\ gresult = Str("")

(***************************************************************************)
(* wait_state                                                              *)
(***************************************************************************)
\* the scheduler states helpers.check_experiment_state accepts
ExperimentStates ==
    {"Waiting", "Launching", "Running", "Terminated", "Error"}

\* STOPPED_STATES = set(_states_from_str('Terminated,Error'))
STOPPED_STATES == {"Terminated", "Error"}

\* _states_from_str: the list of the comma separated states; a string of
\* states is the sequence of its states
_states_from_str(states_str) ==
    [i \in 1..Len(states_str) |-> states_str[i]]

\* a timeout: float('+inf') or a finite number of seconds
PlusInf == [inf |-> TRUE, seconds |-> 0]

Seconds(n) == [inf |-> FALSE, seconds |-> n]

\* a slip that would count the timeout as reached when the time elapsed
\* equals it
Mutant_timeout_inclusive(start, timeout, clock) ==
    IF timeout.inf THEN FALSE ELSE clock >= start + timeout.seconds

\* a slip that would never report the timeout
Mutant_timeout_never(start, timeout, clock) == FALSE

\* _timeout(start_time, timeout), time.time() reading clock
_timeout(start, timeout, clock) ==
    IF timeout.inf THEN FALSE ELSE clock > start + timeout.seconds

\* results of wait_state
Returned(state) == [kind |-> "return", msg |-> "", state |-> state]

AlreadyInStateError(state) ==
    [kind |-> "RuntimeError", msg |-> "Experiment already in state",
     state |-> state]

TimeoutError ==
    [kind |-> "RuntimeError", msg |-> "Timeout reached", state |-> ""]

NoResult == [kind |-> "none", msg |-> "", state |-> ""]

\* a slip that would test the stopped states before the expected ones
Mutant_poll_outcome_stopped_first(state, expected) ==
    IF state \in STOPPED_STATES THEN "raise"
    ELSE IF state \in expected THEN "return"
    ELSE "sleep"

\* a slip that would keep polling an experiment that has stopped
Mutant_poll_outcome_no_stop(state, expected) ==
    IF state \in expected THEN "return" ELSE "sleep"

\* the loop body after state = state_fct(): return, raise or sleep
poll_outcome(state, expected) ==
    IF state \in expected THEN "return"
    ELSE IF state \in STOPPED_STATES THEN "raise"
    ELSE "sleep"

\* the `states` arguments: comma separated states to wait for
StatesArgs ==
    { <<"Running">>, <<"Launching", "Running">>, <<"Terminated">>,
      <<"Running", "Error">> }

\* wait_state is not running
WaitIdle ==
    /\ args = [states |-> <<"Running">>, step |-> 1, timeout |-> PlusInf]
    /\ wpc = "idle"
    /\ expected_states = {}
    /\ start_time = 0
    /\ now = 0
    /\ fetched = <<>>
    /\ sleeps = 0
    /\ result = NoResult

\* the builder is not in use
ExpIdle ==
    /\ exp = _Experiment(Some("test"), 20, None)
    /\ hist = <<>>
    /\ pc = "idle"
    /\ desc = None
    /\ loaded = None
    /\ redump = None
    /\ files = None

(***************************************************************************)
(* The builder's caller                                                    *)
(***************************************************************************)
Init ==
    /\ exp = _Experiment(Some("test"), 20, None)
    /\ hist = <<>>
    /\ pc = "building"
    /\ desc = None
    /\ loaded = None
    /\ redump = None
    /\ files = None
    /\ WaitIdle
    /\ AliasIdle
    /\ SubmitIdle
    /\ FilesIdle
    /\ GetIdle

\* experiment.add_exp_resources(res_dict); an exception leaves the object
\* as the call left it
AddExpResources ==
    /\ pc = "building"
    /\ Len(hist) < MaxCalls
    /\ \E resources \in Resources :
         LET r == add_exp_resources(exp, resources)
         IN  /\ exp' = r.exp
             /\ hist' = Append(hist, [resources |-> resources, err |-> r.err])
    /\ UNCHANGED <<pc, desc, loaded, redump, files>>
    /\ UNCHANGED nonExpVars

\* experiment.filenames()
Filenames ==
    /\ pc = "building"
    /\ files' = Some(filenames(exp))
    /\ pc' = "listed"
    /\ UNCHANGED <<exp, hist, desc, loaded, redump>>
    /\ UNCHANGED nonExpVars

\* helpers.json_dumps(experiment)
Dump ==
    /\ pc = "building"
    /\ desc' = Some(json_dumps(exp))
    /\ pc' = "dumped"
    /\ UNCHANGED <<exp, hist, loaded, redump, files>>
    /\ UNCHANGED nonExpVars

\* load_experiment: from_dict of the description read, the file names it
\* requires, and the description submitted
LoadExperiment ==
    /\ pc = "dumped"
    /\ LET experiment == from_dict(Val(desc))
       IN  /\ loaded' = Some(experiment)
           /\ files' = Some(filenames(experiment))
           /\ redump' = Some(json_dumps(experiment))
    /\ pc' = "loaded"
    /\ UNCHANGED <<exp, hist, desc>>
    /\ UNCHANGED nonExpVars

Next ==
    \/ AddExpResources
    \/ Filenames
    \/ Dump
    \/ LoadExperiment

Spec == Init /\ [][Next]_vars

(***************************************************************************)
(* The caller of wait_state                                                *)
(***************************************************************************)
\* wait_state(state_fct, exp_str, states, step, timeout) is called
InitWait ==
    /\ exp = _Experiment(Some("test"), 20, None)
    /\ hist = <<>>
    /\ pc = "submitted"
    /\ desc = None
    /\ loaded = None
    /\ redump = None
    /\ files = None
    /\ AliasIdle
    /\ SubmitIdle
    /\ FilesIdle
    /\ GetIdle
    /\ args \in [states  : StatesArgs,
                 step    : 1..MaxStep,
                 timeout : {PlusInf} \cup {Seconds(t) : t \in 0..MaxTimeout}]
    /\ wpc = "call"
    /\ expected_states = {}
    /\ start_time = 0
    /\ now = 0
    /\ fetched = <<>>
    /\ sleeps = 0
    /\ result = NoResult

\* expected_states = set(...); start_time = time.time()
WaitEnter ==
    /\ wpc = "call"
    /\ expected_states' = SeqToSet(_states_from_str(args.states))
    /\ start_time' = now
    /\ wpc' = "loop"
    /\ UNCHANGED <<args, now, fetched, sleeps, result>>
    /\ UNCHANGED nonWaitVars

\* while not _timeout(start_time, timeout): ... raise 'Timeout reached'
WaitLoopTest ==
    /\ wpc = "loop"
    /\ \E delay \in 0..MaxDelay :
         /\ now' = now + delay
         /\ IF _timeout(start_time, args.timeout, now')
            THEN wpc' = "raised" /\ result' = TimeoutError
            ELSE wpc' = "fetch" /\ result' = result
    /\ UNCHANGED <<args, expected_states, start_time, fetched, sleeps>>
    /\ UNCHANGED nonWaitVars

\* state = state_fct() and the two tests on it
WaitFetch ==
    /\ wpc = "fetch"
    /\ Len(fetched) < MaxPolls
    /\ \E state \in ExperimentStates :
         /\ fetched' = Append(fetched, state)
         /\ LET outcome == poll_outcome(state, expected_states)
            IN  CASE outcome = "return" ->
                       wpc' = "returned" /\ result' = Returned(state)
                  [] outcome = "raise" ->
                       wpc' = "raised" /\ result' = AlreadyInStateError(state)
                  [] OTHER ->
                       wpc' = "sleep" /\ result' = result
    /\ UNCHANGED <<args, expected_states, start_time, now, sleeps>>
    /\ UNCHANGED nonWaitVars

\* time.sleep(step)
WaitSleep ==
    /\ wpc = "sleep"
    /\ now' = now + args.step
    /\ sleeps' = sleeps + 1
    /\ wpc' = "loop"
    /\ UNCHANGED <<args, expected_states, start_time, fetched, result>>
    /\ UNCHANGED nonWaitVars

NextWait ==
    \/ WaitEnter
    \/ WaitLoopTest
    \/ WaitFetch
    \/ WaitSleep

SpecWait == InitWait /\ [][NextWait]_vars

\* the interpreter keeps running the thread that called wait_state:
\* state_fct() and time.sleep(step) return, so a step that can be taken is
\* taken
SpecWaitFair == SpecWait /\ WF_vars(NextWait)

(***************************************************************************)
(* The caller of submit_experiment.  The experiment is `exp`; `hist` holds *)
(* the add_exp_resources calls the loop made.                              *)
(***************************************************************************)
\* submit_experiment(api, 'test', 20, resources, print_json=print_json) of
\* experiment.py, or submit_experiment(api, experiment, nodes_list,
\* print_json) of experiment_parser.py, is called
InitSubmit ==
    /\ exp = _Experiment(Some("test"), 20, None)
    /\ hist = <<>>
    /\ pc = "idle"
    /\ desc = None
    /\ loaded = None
    /\ redump = None
    /\ files = None
    /\ WaitIdle
    /\ AliasIdle
    /\ sargs \in [impl       : {"experiment", "experiment_parser"},
                  resources  : ResourcesLists,
                  print_json : BOOLEAN]
    /\ spc = "call"
    /\ exp_files = FilesDict
    /\ api_calls = <<>>
    /\ sresult = NoSubmitResult
    /\ FilesIdle
    /\ GetIdle

\* assert resources; experiment = _Experiment(...); exp_files = FilesDict()
SubmitEnter ==
    /\ spc = "call"
    /\ IF sargs.resources = <<>>
       THEN spc' = "raised" /\ sresult' = SubmitRaised(EmptyResourcesError)
       ELSE spc' = "loop" /\ sresult' = sresult
    /\ exp_files' = FilesDict
    /\ UNCHANGED <<exp, hist, sargs, api_calls>>
    /\ UNCHANGED nonSubVars

\* one iteration of `for res_dict in resources`: add_exp_resources, then
\* the firmware file is added; either may raise, which ends the call
SubmitAddGroup ==
    /\ spc = "loop"
    /\ Len(hist) < Len(sargs.resources)
    /\ LET res_dict == sargs.resources[Len(hist) + 1]
           r == add_exp_resources(exp, res_dict)
       IN  /\ exp' = r.exp
           /\ hist' = Append(hist, [resources |-> res_dict, err |-> r.err])
           /\ IF r.err /= NoError
              THEN /\ spc' = "raised"
                   /\ sresult' = SubmitRaised(r.err)
                   /\ exp_files' = exp_files
              ELSE \E added \in IF IsNone(res_dict.firmware) THEN {TRUE}
                                ELSE BOOLEAN :
                       IF added
                       THEN /\ spc' = "loop"
                            /\ sresult' = sresult
                            /\ exp_files' =
                                   add_files_from_dict(exp_files, res_dict)
                       ELSE /\ spc' = "raised"
                            /\ sresult' = SubmitRaised(FileError)
                            /\ exp_files' = exp_files
    /\ UNCHANGED <<sargs, api_calls>>
    /\ UNCHANGED nonSubVars

\* after the loop: the experiment is returned, or its description is added
\* to the files and api.submit_experiment(exp_files) is called, which
\* returns the server's answer or raises
SubmitAfterLoop ==
    /\ spc = "loop"
    /\ Len(hist) = Len(sargs.resources)
    /\ IF after_loop(sargs.print_json) = "return"
       THEN /\ spc' = "returned"
            /\ sresult' = SubmitReturnedExperiment(exp)
            /\ UNCHANGED <<exp_files, api_calls>>
       ELSE /\ exp_files' = [exp_files EXCEPT !.new_exp = Some(json_dumps(exp))]
            /\ api_calls' = Append(api_calls, exp_files')
            /\ \E answered \in BOOLEAN :
                  IF answered
                  THEN spc' = "returned" /\ sresult' = SubmitReturnedResponse
                  ELSE spc' = "raised"
                       /\ sresult' = SubmitRaised(TransportError)
    /\ UNCHANGED <<exp, hist, sargs>>
    /\ UNCHANGED nonSubVars

NextSubmit ==
    \/ SubmitEnter
    \/ SubmitAddGroup
    \/ SubmitAfterLoop

SpecSubmit == InitSubmit /\ [][NextSubmit]_vars

(***************************************************************************)
(* The caller of _files_with_filespath                                     *)
(***************************************************************************)
\* _files_with_filespath(files, filespath) is called
InitFiles ==
    /\ ExpIdle
    /\ WaitIdle
    /\ AliasIdle
    /\ SubmitIdle
    /\ fargs \in [files     : UNION {[1..n -> FileNames] : n \in 0..MaxFiles},
                  filespath : UNION {[1..n -> FilePaths] : n \in 0..MaxPaths}]
    /\ fpc = "call"
    /\ fresult = FilesReturned(<<>>)
    /\ GetIdle

\* the call returns a list or raises ValueError
FilesWithFilespath ==
    /\ fpc = "call"
    /\ fresult' = _files_with_filespath(fargs.files, fargs.filespath)
    /\ fpc' = "done"
    /\ UNCHANGED fargs
    /\ UNCHANGED nonFwfVars

NextFiles == FilesWithFilespath

SpecFiles == InitFiles /\ [][NextFiles]_vars

(***************************************************************************)
(* The caller of get_experiment                                            *)
(***************************************************************************)
\* get_experiment(api, exp_id, option) of experiment.py, or
\* get_experiment(api, command, experiment_id) of experiment_parser.py, is
\* called
InitGet ==
    /\ ExpIdle
    /\ WaitIdle
    /\ AliasIdle
    /\ SubmitIdle
    /\ FilesIdle
    /\ gargs \in
         [impl : {"experiment"}, option : GetOptions, exp_id : {7, 12},
          directory : Directories]
         \cup
         [impl : {"experiment_parser"}, option : GetCommands,
          exp_id : {7, 12}, directory : Directories]
    /\ gpc = "call"
    /\ fs = gargs.directory
    /\ gapi = <<>>
    /\ gresult = Str("")

\* the whole call: one request to the server, the archive written or not,
\* the value returned
GetExperiment ==
    /\ gpc = "call"
    /\ \E answer \in ApiAnswers(gargs.option \in {"data", "archive"}) :
         LET r == IF gargs.impl = "experiment"
                  THEN get_experiment(fs, gargs.exp_id, gargs.option, answer)
                  ELSE parser_get_experiment(fs, gargs.exp_id, gargs.option,
                                             answer)
         IN  /\ fs' = r.fs
             /\ gresult' = r.result
             /\ gapi' = Append(gapi, [exp_id |-> gargs.exp_id,
                                      option |-> gargs.option,
                                      answer |-> answer])
    /\ gpc' = "done"
    /\ UNCHANGED gargs
    /\ UNCHANGED nonGetVars

NextGet == GetExperiment

SpecGet == InitGet /\ [][NextGet]_vars

(***************************************************************************)
(* One thread building AliasNodes                                          *)
(***************************************************************************)
\* a fresh process: class AliasNodes has just been defined
InitAlias ==
    /\ ExpIdle
    /\ WaitIdle
    /\ AliasIdle
    /\ SubmitIdle
    /\ FilesIdle
    /\ GetIdle

\* AliasNodes(1, 'grenoble', archi, False, _alias=alias)
NewAliasNodes ==
    /\ Len(ctor) < MaxCtor
    /\ \E archi \in ArchiInputs, alias \in AliasArgs :
         LET r == AliasNodes_init(_alias, 1, "grenoble", archi, FALSE, alias)
         IN  /\ _alias' = r.counter
             /\ ctor' = Append(ctor, CtorCall(archi, alias, r))
    /\ UNCHANGED <<tpc, tmp>>
    /\ UNCHANGED nonAliasVars

NextAlias == NewAliasNodes

SpecAlias == InitAlias /\ [][NextAlias]_vars

(***************************************************************************)
(* Several threads building AliasNodes without an explicit _alias.  The    *)
(* interpreter may switch threads between any two bytecodes, so            *)
(* `cls._alias += 1; alias = cls._alias` is four steps: load the           *)
(* attribute, add one, store the attribute, load the attribute again.      *)
(***************************************************************************)
\* the architecture the threads give
ThreadArchi == ARCHIS[3]

\* calls of the constructor begun so far
Begun == Len(ctor) + Cardinality({t \in Threads : tpc[t] /= "idle"})

\* AliasNodes(1, 'grenoble', 'm3:at86rf231') is called: the architecture
\* is valid and alias is None
ThreadCall(t) ==
    /\ tpc[t] = "idle"
    /\ Begun < MaxCtor
    /\ _valid_archi(ThreadArchi)
    /\ tpc' = [tpc EXCEPT ![t] = "load"]
    /\ UNCHANGED <<_alias, ctor, tmp>>
    /\ UNCHANGED nonAliasVars

\* cls._alias += 1: the attribute is loaded
ThreadLoad(t) ==
    /\ tpc[t] = "load"
    /\ tmp' = [tmp EXCEPT ![t] = _alias]
    /\ tpc' = [tpc EXCEPT ![t] = "add"]
    /\ UNCHANGED <<_alias, ctor>>
    /\ UNCHANGED nonAliasVars

\* cls._alias += 1: one is added to the value loaded
ThreadAdd(t) ==
    /\ tpc[t] = "add"
    /\ tmp' = [tmp EXCEPT ![t] = tmp[t] + 1]
    /\ tpc' = [tpc EXCEPT ![t] = "store"]
    /\ UNCHANGED <<_alias, ctor>>
    /\ UNCHANGED nonAliasVars

\* cls._alias += 1: the sum is stored in the attribute
ThreadStore(t) ==
    /\ tpc[t] = "store"
    /\ _alias' = tmp[t]
    /\ tpc' = [tpc EXCEPT ![t] = "reload"]
    /\ UNCHANGED <<ctor, tmp>>
    /\ UNCHANGED nonAliasVars

\* alias = cls._alias; return str(alias); the constructor fills the object
ThreadReload(t) ==
    /\ tpc[t] = "reload"
    /\ LET r == [counter |-> _alias,
                 raised  |-> FALSE,
                 obj     |-> Some(AliasNodesObj(1, "grenoble", ThreadArchi,
                                                FALSE, str(PyInt(_alias))))]
       IN  ctor' = Append(ctor, CtorCall(ThreadArchi, None, r))
    /\ tpc' = [tpc EXCEPT ![t] = "idle"]
    /\ tmp' = [tmp EXCEPT ![t] = 0]
    /\ UNCHANGED _alias
    /\ UNCHANGED nonAliasVars

NextThreads ==
    \E t \in Threads :
        \/ ThreadCall(t)
        \/ ThreadLoad(t)
        \/ ThreadAdd(t)
        \/ ThreadStore(t)
        \/ ThreadReload(t)

SpecThreads == InitAlias /\ [][NextThreads]_vars


(***************************************************************************)
(* What the calls made so far should have produced, from `hist` alone      *)
(***************************************************************************)
Calls == 1..Len(hist)

IsModeConflict(c) == c.err = ModeConflictError

IsDuplicateNode(c) ==
    c.err.kind = "ValueError" /\ c.err.msg = "Nodes specified multiple times"

AllOk == \A j \in Calls : hist[j].err = NoError

\* the mode the first group fixed
FirstType == hist[1].resources.type

\* call j is a physical group added to a physical experiment
PhysicalCall(j) == hist[j].resources.type = "physical" /\ FirstType = "physical"

\* call j is an alias group added to an alias experiment
AliasCall(j) == hist[j].resources.type = "alias" /\ FirstType = "alias"

\* the node list of the group of physical call j
ItemsOf(j) == SeqToSet(hist[j].resources.nodes.items)

\* the nodes the groups before call j registered
RegisteredBefore(j) ==
    UNION {ItemsOf(i) : i \in {k \in 1..(j - 1) :
                                 PhysicalCall(k) /\ ~IsDuplicateNode(hist[k])}}

\* the keys and the node-set of each key of an optional association map
KeysOfOpt(m) == IF IsNone(m) THEN <<>> ELSE Keys(Val(m))

NodesOfOpt(m, key) == IF IsNone(m) THEN {} ELSE NodesOf(Val(m), key)

\* the order in which add_exp_resources makes the associations of a group
AssocStage(assoctype) ==
    CASE assoctype = "firmware" -> 1 [] assoctype = "profile" -> 2 [] OTHER -> 3

\* how far call c went: 0 when it raised before any association, the stage
\* of the association that raised, 4 when it returned
StageReached(c) ==
    CASE c.err = NoError -> 4
      [] c.err.kind = "ConflictError" -> AssocStage(c.err.msg)
      [] OTHER -> 0

\* the name call j gives for association type assoctype, None when it
\* gives none
DeclaredName(j, assoctype) ==
    LET r == hist[j].resources
    IN  CASE assoctype = "firmware" -> r.firmware
          [] assoctype = "profile" -> r.profile
          [] OTHER ->
               IF \E k \in 1..Len(r.associations) :
                      r.associations[k][1] = assoctype
               THEN Some(r.associations[
                        CHOOSE k \in 1..Len(r.associations) :
                            r.associations[k][1] = assoctype][2])
               ELSE None

\* call j gave a name for assoctype and that association was made
Registered(j, assoctype) ==
    /\ ~IsNone(DeclaredName(j, assoctype))
    /\ StageReached(hist[j]) > AssocStage(assoctype)

FwRegistered(j) == Registered(j, "firmware")

\* the value name expected in the map: the file name of a firmware path,
\* any other name as given
ExpectedName(j, assoctype) ==
    LET given == Val(DeclaredName(j, assoctype))
    IN  IF assoctype = "firmware" THEN <<given[Len(given)]>> ELSE given

FwBasename(j) == ExpectedName(j, "firmware")

\* the references call j associates: its node list or its alias id
RefsOf(j) ==
    IF hist[j].resources.type = "alias"
    THEN {hist[j].resources.nodes.alias}
    ELSE ItemsOf(j)

\* the expected value names of the first n calls, in first-seen order
RECURSIVE FirstSeen(_, _)
FirstSeen(n, assoctype) ==
    IF n = 0 THEN <<>>
    ELSE LET before == FirstSeen(n - 1, assoctype)
         IN  IF /\ Registered(n, assoctype)
                /\ ExpectedName(n, assoctype) \notin SeqToSet(before)
             THEN Append(before, ExpectedName(n, assoctype))
             ELSE before

\* the references of the calls that registered `name` for assoctype
RefsUnder(name, assoctype) ==
    UNION {RefsOf(j) : j \in {k \in Calls :
              Registered(k, assoctype) /\ ExpectedName(k, assoctype) = name}}

\* map m holds exactly what the calls registered for assoctype
HoldsRegistered(m, assoctype) ==
    /\ KeysOfOpt(m) = FirstSeen(Len(hist), assoctype)
    /\ \A name \in SeqToSet(KeysOfOpt(m)) :
         NodesOfOpt(m, name) = RefsUnder(name, assoctype)
    /\ IsNone(m) \/ \A i \in 1..Len(Val(m).entries) :
                       NoDuplicates(Val(m).entries[i].nodes)

\* the map of an extra association type of the experiment, None when absent
ExtraMap(e, assoctype) ==
    IF IsNone(e.associations) THEN None
    ELSE IF assoctype \in DOMAIN Val(e.associations)
         THEN Some(Val(e.associations)[assoctype])
         ELSE None

\* the list holds its urls in non-decreasing node_url_sort_key order
SortedByKey(urls) ==
    \A i, j \in 1..Len(urls) :
        i < j => ~KeyLess(node_url_sort_key(urls[j]), node_url_sort_key(urls[i]))

(***************************************************************************)
(* C1: the first resource group fixes the addressing mode: every later     *)
(* add_exp_resources call with a group of the other mode raises the        *)
(* mode-conflict ValueError, and the experiment keeps the first mode.      *)
(***************************************************************************)
Thm_C1_ModeFixedByFirstGroup ==
    /\ \A j \in Calls :
         hist[j].resources.type # FirstType => hist[j].err = ModeConflictError
    /\ hist # <<>> => exp.type = Some(FirstType)

\* a physical group then an alias group, and an alias group then a physical
\* group after it: both rejected
Wit_C1 ==
    /\ Len(hist) = 3
    /\ hist[1].resources.type = "physical"
    /\ hist[2].resources.type = "alias"
    /\ hist[2].err = ModeConflictError
    /\ hist[3].resources.type = "alias"
    /\ hist[3].err = ModeConflictError

(***************************************************************************)
(* C2: a physical group sharing at least one address with the nodes        *)
(* already registered raises the duplicate-node error, and the error       *)
(* names exactly the addresses of the group that were already registered.  *)
(***************************************************************************)
Thm_C2_DuplicateNamesIntersection ==
    \A j \in Calls :
        PhysicalCall(j) =>
            IF ItemsOf(j) \cap RegisteredBefore(j) # {}
            THEN hist[j].err =
                     DuplicateNodeError(ItemsOf(j) \cap RegisteredBefore(j))
            ELSE ~IsDuplicateNode(hist[j])

\* a group rejected for one of its two nodes only
Wit_C2 ==
    \E j \in Calls :
        /\ PhysicalCall(j)
        /\ IsDuplicateNode(hist[j])
        /\ hist[j].err.nodes # {}
        /\ hist[j].err.nodes # ItemsOf(j)
        /\ hist[j].err.nodes # RegisteredBefore(j)

(***************************************************************************)
(* C3: in physical mode, after any sequence of add_exp_resources calls,    *)
(* failed ones included, the nodes list holds no address twice and is      *)
(* sorted by (site, architecture, numeric id).                             *)
(***************************************************************************)
Thm_C3_NodesUniqueSorted ==
    exp.type = Some("physical") =>
        /\ NoDuplicates(exp.nodes)
        /\ SortedByKey(exp.nodes)
        /\ SeqToSet(exp.nodes) =
               UNION {ItemsOf(j) : j \in {k \in Calls :
                         PhysicalCall(k) /\ ~IsDuplicateNode(hist[k])}}

\* three nodes registered from unsorted groups, one call having failed
Wit_C3 ==
    /\ exp.type = Some("physical")
    /\ Len(exp.nodes) = 3
    /\ \E j \in Calls : IsDuplicateNode(hist[j])
    /\ \E j \in Calls :
         hist[j].err = NoError /\ ~SortedByKey(hist[j].resources.nodes.items)

(***************************************************************************)
(* C4 as claimed: a physical group whose own node list names an address    *)
(* twice is rejected with the duplicate-node error naming that address.    *)
(***************************************************************************)
CE_C4_RepeatedInGroupRejected ==
    \A j \in Calls :
        PhysicalCall(j) /\ ~NoDuplicates(hist[j].resources.nodes.items) =>
            /\ IsDuplicateNode(hist[j])
            /\ \E i, k \in 1..Len(hist[j].resources.nodes.items) :
                 /\ i # k
                 /\ hist[j].resources.nodes.items[i] =
                        hist[j].resources.nodes.items[k]
                 /\ hist[j].resources.nodes.items[i] \in hist[j].err.nodes

(***************************************************************************)
(* C4 amended: a physical group whose own node list names an address       *)
(* twice is accepted when none of its addresses is already registered,     *)
(* and the address is then registered once; the duplicate-node error is    *)
(* raised only for addresses registered by an earlier group.               *)
(***************************************************************************)
Thm_C4_RepeatedInGroupMerged ==
    \A j \in Calls :
        PhysicalCall(j) /\ ~NoDuplicates(hist[j].resources.nodes.items) =>
            IF ItemsOf(j) \cap RegisteredBefore(j) = {}
            THEN /\ hist[j].err = NoError
                 /\ \A url \in ItemsOf(j) :
                      Cardinality({i \in 1..Len(exp.nodes) :
                                     exp.nodes[i] = url}) = 1
            ELSE hist[j].err =
                     DuplicateNodeError(ItemsOf(j) \cap RegisteredBefore(j))

\* the group <<m3-1, m3-1>> accepted on a fresh experiment
Wit_C4 ==
    /\ Len(hist) = 1
    /\ PhysicalCall(1)
    /\ ~NoDuplicates(hist[1].resources.nodes.items)
    /\ hist[1].err = NoError
    /\ Len(exp.nodes) = 1

(***************************************************************************)
(* C5 as claimed: two groups of one experiment sharing a node or an alias  *)
(* id and naming two different firmwares make the later call fail with     *)
(* the firmware map's ConflictError; naming the same firmware does not,    *)
(* and the firmware's node-set is the union of the groups' references.     *)
(***************************************************************************)
CE_C5_SharedReferenceConflicts ==
    /\ \A i, j \in Calls :
         ( /\ i < j
           /\ hist[i].resources.type = FirstType
           /\ hist[j].resources.type = FirstType
           /\ RefsOf(i) \cap RefsOf(j) # {}
           /\ FwRegistered(i)
           /\ ~IsNone(hist[j].resources.firmware) ) =>
             IF FwBasename(i) # FwBasename(j)
             THEN hist[j].err = ConflictError("firmware")
             ELSE hist[j].err # ConflictError("firmware")
    /\ HoldsRegistered(exp.firmwareassociations, "firmware")

(***************************************************************************)
(* C5 amended: two alias groups with the same alias id naming two          *)
(* different firmwares make the later call fail with the firmware map's    *)
(* ConflictError; naming the same firmware raises no firmware conflict     *)
(* and the firmware's node-set is the union of the references, each once.  *)
(* Two physical groups sharing a node never reach the firmware map: the    *)
(* later call fails with the duplicate-node error, whatever the firmwares. *)
(***************************************************************************)
Thm_C5_AliasFirmwareConflict ==
    /\ \A i, j \in Calls :
         ( /\ i < j
           /\ AliasCall(i)
           /\ AliasCall(j)
           /\ RefsOf(i) = RefsOf(j)
           /\ FwRegistered(i)
           /\ ~IsNone(hist[j].resources.firmware) ) =>
             IF FwBasename(i) # FwBasename(j)
             THEN hist[j].err = ConflictError("firmware")
             ELSE hist[j].err # ConflictError("firmware")
    /\ \A i, j \in Calls :
         ( /\ i < j
           /\ PhysicalCall(i)
           /\ PhysicalCall(j)
           /\ ~IsDuplicateNode(hist[i])
           /\ ItemsOf(i) \cap ItemsOf(j) # {} ) => IsDuplicateNode(hist[j])
    /\ HoldsRegistered(exp.firmwareassociations, "firmware")

\* alias id "1" twice under fw1.elf without error, then refused under fw2.elf
Wit_C5 ==
    /\ Len(hist) = 3
    /\ \A j \in Calls : AliasCall(j) /\ RefsOf(j) = {"1"}
    /\ hist[1].resources.nodes # hist[2].resources.nodes
    /\ FwRegistered(1)
    /\ FwRegistered(2)
    /\ FwBasename(1) = FwBasename(2)
    /\ hist[2].err = NoError
    /\ hist[3].err = ConflictError("firmware")
    /\ NodesOfOpt(exp.firmwareassociations, FwBasename(1)) = {"1"}

(***************************************************************************)
(* C6: after a sequence of physical add_exp_resources calls that all       *)
(* succeeded, the firmware map has one entry per distinct firmware file    *)
(* basename, in first-seen order, each holding exactly the union of the    *)
(* node lists of the groups naming it; profile and extra association       *)
(* names are kept as given.                                                *)
(***************************************************************************)
Thm_C6_FirmwareMapCanonical ==
    (hist # <<>> /\ AllOk /\ FirstType = "physical") =>
        /\ HoldsRegistered(exp.firmwareassociations, "firmware")
        /\ HoldsRegistered(exp.profileassociations, "profile")
        /\ HoldsRegistered(ExtraMap(exp, "mobility"), "mobility")

\* a/fw1.elf and b/fw1.elf merged in one entry of three nodes, before or
\* after the entry of fw2.elf
Wit_C6 ==
    /\ Len(hist) = 3
    /\ AllOk
    /\ FirstType = "physical"
    /\ Len(KeysOfOpt(exp.firmwareassociations)) = 2
    /\ \E j, k \in Calls :
         /\ hist[j].resources.firmware # hist[k].resources.firmware
         /\ FwRegistered(j) /\ FwRegistered(k)
         /\ FwBasename(j) = FwBasename(k)
         /\ Cardinality(NodesOfOpt(exp.firmwareassociations, FwBasename(j))) = 3
    /\ KeysOfOpt(exp.profileassociations) # <<>>

(***************************************************************************)
(* C7 as claimed: filenames() returns the distinct firmware basenames      *)
(* sorted and without repetition, whatever the order of the groups.        *)
(***************************************************************************)
CE_C7_FilenamesSorted ==
    ~IsNone(files) =>
        /\ SeqToSet(Val(files)) =
               SeqToSet(FirstSeen(Len(hist), "firmware"))
        /\ NoDuplicates(Val(files))
        /\ \A i, j \in 1..Len(Val(files)) :
             i < j => StrRank(Val(files)[i][1]) < StrRank(Val(files)[j][1])

(***************************************************************************)
(* C7 amended: filenames() returns the distinct firmware basenames, each   *)
(* once, in the order the firmwares were first registered (not sorted),    *)
(* however many groups name each; it is empty when no group named one.     *)
(***************************************************************************)
Thm_C7_FilenamesFirstSeen ==
    ~IsNone(files) =>
        /\ Val(files) = FirstSeen(Len(hist), "firmware")
        /\ NoDuplicates(Val(files))
        /\ (\A j \in Calls : IsNone(hist[j].resources.firmware)) =>
               Val(files) = <<>>

\* fw2.elf registered before fw1.elf, fw1.elf named by two groups
Wit_C7 ==
    /\ pc = "listed"
    /\ Val(files) = << <<"fw2.elf">>, <<"fw1.elf">> >>
    /\ \A j \in Calls : FwRegistered(j)
    /\ Len(hist) = 3

(***************************************************************************)
(* C8: for an experiment built by a successful sequence of                 *)
(* add_exp_resources calls of one addressing mode, the description         *)
(* obtained by json_dumps, from_dict and json_dumps again is identical to  *)
(* the first description.                                                  *)
(***************************************************************************)
Thm_C8_RoundTrip ==
    (~IsNone(redump) /\ AllOk) => Val(redump) = Val(desc)

\* an alias experiment with firmware, profile and extra associations
\* reloaded: the rebuilt object differs from the built one, not its dump
Wit_C8 ==
    /\ pc = "loaded"
    /\ AllOk
    /\ Len(hist) = 3
    /\ FirstType = "alias"
    /\ Val(loaded) # exp
    /\ ~IsNone(exp.firmwareassociations)
    /\ ~IsNone(exp.profileassociations)
    /\ ~IsNone(exp.associations)

(***************************************************************************)
(* What wait_state should have done, from the states fetched               *)
(***************************************************************************)
\* the states the caller waits for
TargetStates == SeqToSet(args.states)

\* position k holds the first target state, no Terminated or Error before
FirstTargetAt(k) ==
    /\ k \in 1..Len(fetched)
    /\ fetched[k] \in TargetStates
    /\ \A i \in 1..(k - 1) : fetched[i] \notin TargetStates \cup STOPPED_STATES

\* position k holds Terminated or Error, no target state up to it and no
\* Terminated or Error before it
FirstStoppedAt(k) ==
    /\ k \in 1..Len(fetched)
    /\ fetched[k] \in {"Terminated", "Error"}
    /\ fetched[k] \notin TargetStates
    /\ \A i \in 1..(k - 1) :
         fetched[i] \notin TargetStates \cup {"Terminated", "Error"}

(***************************************************************************)
(* C9: with no timeout, when the first target state is the k-th state      *)
(* fetched and neither Terminated nor Error came before it, wait_state     *)
(* has returned that state after exactly k state_fct() calls and k - 1     *)
(* sleeps, one between two consecutive calls.                              *)
(***************************************************************************)
Thm_C9_ReturnsFirstTarget ==
    args.timeout = PlusInf =>
        /\ \A k \in 1..Len(fetched) :
             FirstTargetAt(k) =>
                 /\ wpc = "returned"
                 /\ result = Returned(fetched[k])
                 /\ Len(fetched) = k
                 /\ sleeps = k - 1
        /\ wpc = "fetch" => sleeps = Len(fetched)
        /\ wpc \in {"sleep", "returned", "raised"} => sleeps = Len(fetched) - 1

\* Waiting, Launching, Running with target Running: Running after 3 calls
Wit_C9 ==
    /\ args.timeout = PlusInf
    /\ args.states = <<"Running">>
    /\ fetched = <<"Waiting", "Launching", "Running">>
    /\ wpc = "returned"
    /\ result = Returned("Running")
    /\ sleeps = 2

Elapsed == now - start_time

WaitOver == wpc \in {"returned", "raised"}

(***************************************************************************)
(* C11 as stated: the timeout test is inclusive, so state_fct() is never   *)
(* called in an iteration whose test read a time elapsed greater than or   *)
(* equal to the timeout; with a timeout of 0 it is not called at all.      *)
(***************************************************************************)
CE_C11_InclusiveTimeout ==
    (~args.timeout.inf /\ wpc = "fetch") => Elapsed < args.timeout.seconds

(***************************************************************************)
(* C11, amended: the timeout test precedes each state_fct() call and is    *)
(* strict.  state_fct() is called only in an iteration whose test read a   *)
(* time elapsed lower than or equal to the timeout; 'Timeout reached' is   *)
(* raised only when the time elapsed is greater than the timeout, and      *)
(* without a state_fct() call in that iteration (every call made was       *)
(* followed by a sleep); with a timeout of 0, state_fct() is called at     *)
(* most once.                                                              *)
(***************************************************************************)
Thm_C11_StrictTimeoutBeforeFetch ==
    ~args.timeout.inf =>
        /\ wpc = "fetch" => Elapsed <= args.timeout.seconds
        /\ result = TimeoutError =>
               /\ wpc = "raised"
               /\ Elapsed > args.timeout.seconds
               /\ sleeps = Len(fetched)
        /\ args.timeout = Seconds(0) => Len(fetched) <= 1

\* timeout 0, the clock did not move before the first test: Waiting is
\* fetched once, and the test after the sleep raises
Wit_C11 ==
    /\ args.timeout = Seconds(0)
    /\ fetched = <<"Waiting">>
    /\ sleeps = 1
    /\ wpc = "raised"
    /\ result = TimeoutError

(***************************************************************************)
(* C19: the expected states are tested before the stopped ones: when       *)
(* Terminated or Error is an expected state and state_fct() yields it      *)
(* before any other expected or stopped state, wait_state returns it; the  *)
(* already-in-state error never carries an expected state.                 *)
(***************************************************************************)
Thm_C19_TargetTestedFirst ==
    /\ \A k \in 1..Len(fetched) :
         ( /\ fetched[k] \in TargetStates \cap STOPPED_STATES
           /\ \A i \in 1..(k - 1) :
                fetched[i] \notin TargetStates \cup STOPPED_STATES )
         => /\ wpc = "returned"
            /\ result = Returned(fetched[k])
            /\ Len(fetched) = k
    /\ result.msg = "Experiment already in state" =>
           result.state \notin TargetStates

\* waiting for Running or Error: Error at the second poll is returned
Wit_C19 ==
    /\ args.states = <<"Running", "Error">>
    /\ fetched = <<"Waiting", "Error">>
    /\ wpc = "returned"
    /\ result = Returned("Error")

(***************************************************************************)
(* C20: with a finite timeout, a positive step and a state_fct() that      *)
(* always returns, every call of wait_state eventually ends: it returns    *)
(* or it raises, even when state_fct() yields Waiting for ever.            *)
(***************************************************************************)
Thm_C20_FiniteTimeoutTerminates ==
    (wpc = "call" /\ ~args.timeout.inf) ~> WaitOver

\* only Waiting was ever fetched, and the wait ended by the timeout
Wit_C20 ==
    /\ ~args.timeout.inf
    /\ args.step >= 1
    /\ Len(fetched) >= 2
    /\ \A i \in 1..Len(fetched) : fetched[i] = "Waiting"
    /\ wpc = "raised"
    /\ result = TimeoutError

\* the calls among the first k that succeeded without an explicit _alias
AutoCalls(k) ==
    {i \in 1..k : ~ctor[i].raised /\ IsNone(ctor[i].given)}

\* the alias id of the object the k-th call built
AliasOf(k) == Val(ctor[k].obj).alias

\* the decimal writing of 1..9
DecimalOf(n) == <<"1", "2", "3", "4", "5", "6", "7", "8", "9">>[n]

(***************************************************************************)
(* C12: in a fresh process, the n-th AliasNodes built without an explicit  *)
(* _alias has the alias id str(n), whatever the number of AliasNodes       *)
(* built with an explicit _alias in between; an explicit _alias is the     *)
(* alias id, as a string, and leaves the counter as it was.                *)
(***************************************************************************)
Thm_C12_AutoAliasCountsAutoOnly ==
    /\ _alias = Cardinality(AutoCalls(Len(ctor)))
    /\ \A k \in 1..Len(ctor) :
         ~ctor[k].raised =>
             /\ IsNone(ctor[k].given) =>
                    AliasOf(k) = DecimalOf(Cardinality(AutoCalls(k)))
             /\ ctor[k].given = Some(PyStr("2")) => AliasOf(k) = "2"
             /\ ctor[k].given = Some(PyInt(1)) => AliasOf(k) = "1"

\* automatic, _alias='2', automatic: the ids are '1', '2', '2' and the
\* counter is 2
Wit_C12 ==
    /\ Len(ctor) = 3
    /\ \A k \in 1..3 : ~ctor[k].raised
    /\ IsNone(ctor[1].given) /\ AliasOf(1) = "1"
    /\ ctor[2].given = Some(PyStr("2")) /\ AliasOf(2) = "2"
    /\ IsNone(ctor[3].given) /\ AliasOf(3) = "2"
    /\ _alias = 2

(***************************************************************************)
(* C13 as stated: when several threads build AliasNodes without an         *)
(* explicit _alias, under every interleaving of the steps of _alias_uid,   *)
(* no two of the objects built have the same alias id.                     *)
(***************************************************************************)
CE_C13_NoCollisionAmongThreads ==
    \A i, j \in AutoCalls(Len(ctor)) : i /= j => AliasOf(i) /= AliasOf(j)

\* the five architectures of the list that are plain strings
WhitelistedArchis == {ARCHIS[i] : i \in 1..5}

\* archi starts with 'custom:'
StartsWithCustom(archi) ==
    /\ Len(archi) >= 7
    /\ SubSeq(archi, 1, 7) = <<"c", "u", "s", "t", "o", "m", ":">>

(***************************************************************************)
(* C14 as stated: AliasNodes(...) succeeds if and only if archi is one of  *)
(* the five listed strings or starts with 'custom:'; any other string, a   *)
(* listed string followed by more characters included, raises ValueError.  *)
(***************************************************************************)
CE_C14_ArchiExactOrCustom ==
    \A k \in 1..Len(ctor) :
        ~ctor[k].raised <=>
            \/ ctor[k].archi \in WhitelistedArchis
            \/ StartsWithCustom(ctor[k].archi)

\* call c gave an alias group
GaveAlias(c) == c.resources.type = "alias"

\* the AliasNodes objects the calls gave, in call order
AliasGroupsGiven ==
    LET given == SelectSeq(hist, GaveAlias)
    IN  [i \in 1..Len(given) |-> given[i].resources.nodes]

\* the alias ids of a sequence of AliasNodes objects are pairwise distinct
DistinctAliasIds(groups) ==
    \A i, j \in 1..Len(groups) :
        i /= j => groups[i].alias /= groups[j].alias

(***************************************************************************)
(* C15 as stated: in alias mode, after successful add_exp_resources calls, *)
(* the alias groups of nodes have pairwise distinct alias ids, whatever    *)
(* the groups given (explicit _alias, same AliasNodes given again).        *)
(***************************************************************************)
CE_C15_AliasIdsDistinct ==
    (hist /= <<>> /\ AllOk /\ FirstType = "alias") =>
        DistinctAliasIds(exp.nodes)

(***************************************************************************)
(* C15, amended: in alias mode, nodes holds one entry per alias group      *)
(* given to add_exp_resources, in call order, with no check on the alias   *)
(* ids; so the ids in nodes are pairwise distinct exactly when the groups  *)
(* given carry pairwise distinct ids.                                      *)
(***************************************************************************)
Thm_C15_AliasGroupsAppended ==
    (hist /= <<>> /\ FirstType = "alias") =>
        /\ exp.nodes = AliasGroupsGiven
        /\ DistinctAliasIds(exp.nodes) <=> DistinctAliasIds(AliasGroupsGiven)

\* the same AliasNodes given by two successful calls: two entries, one id
Wit_C15 ==
    /\ Len(hist) = 2
    /\ AllOk
    /\ FirstType = "alias"
    /\ hist[1].resources.nodes = hist[2].resources.nodes
    /\ Len(exp.nodes) = 2
    /\ exp.nodes[1].alias = exp.nodes[2].alias

\* the groups of the list that add_exp_resources has accepted so far are
\* the first ones of the list, in list order
LoopFollowsList ==
    /\ Len(hist) <= Len(sargs.resources)
    /\ \A i \in 1..Len(hist) : hist[i].resources = sargs.resources[i]

\* the loop went through the whole list and no call raised
AllGroupsAdded ==
    /\ sargs.resources /= <<>>
    /\ Len(hist) = Len(sargs.resources)
    /\ AllOk

(***************************************************************************)
(* C16: submit_experiment has no partial success.  api.submit_experiment   *)
(* is called at most once, and only after add_exp_resources succeeded for  *)
(* every group of the list, taken in list order; it is never called when a *)
(* group fails (no later group is added either) nor when print_json is     *)
(* set, and then the experiment built is what is returned.                 *)
(***************************************************************************)
Thm_C16_NoPartialSubmission ==
    /\ LoopFollowsList
    /\ Len(api_calls) <= 1
    /\ Len(api_calls) = 1 =>
           /\ ~sargs.print_json
           /\ AllGroupsAdded
           /\ api_calls[1].new_exp = Some(json_dumps(exp))
    /\ \A i \in 1..Len(hist) :
           hist[i].err /= NoError =>
               /\ i = Len(hist)
               /\ api_calls = <<>>
               /\ spc = "raised"
               /\ sresult = SubmitRaised(hist[i].err)
    /\ (spc = "returned" /\ sargs.print_json) =>
           /\ api_calls = <<>>
           /\ AllGroupsAdded
           /\ sresult = SubmitReturnedExperiment(exp)
    /\ (spc = "returned" /\ ~sargs.print_json) => Len(api_calls) = 1

\* two groups accepted, then the one submission
Wit_C16 ==
    /\ Len(sargs.resources) = 2
    /\ AllGroupsAdded
    /\ ~sargs.print_json
    /\ Len(api_calls) = 1
    /\ spc = "returned"

\* the distinct names of `files`, and the paths of `filespath`
NamesGiven == SeqToSet(fargs.files)

PathsGiven == SeqToSet(fargs.filespath)

\* the paths of `filespath` whose basename is the name
PathsFor(name) == {p \in PathsGiven : basename(p) = name}

\* position i of the list returned stands for the name: the name itself
\* when no path has it as basename, else one of these paths
StandsFor(i, name) ==
    IF PathsFor(name) = {} THEN fresult.value[i] = name
    ELSE fresult.value[i] \in PathsFor(name)

(***************************************************************************)
(* C17: _files_with_filespath(files, filespath) returns the sorted list    *)
(* that holds one element per distinct name of files: the path of          *)
(* filespath whose basename is the name, or the name itself when there is  *)
(* none.  When a path of filespath has a basename that is not in files, it *)
(* raises ValueError and returns nothing.                                  *)
(***************************************************************************)
Thm_C17_FilesWithFilespath ==
    fpc = "done" =>
        /\ fresult.raised <=>
               \E p \in PathsGiven : basename(p) \notin NamesGiven
        /\ fresult.raised => fresult.value = <<>>
        /\ ~fresult.raised =>
               /\ Len(fresult.value) = Cardinality(NamesGiven)
               /\ \A name \in NamesGiven :
                      Cardinality({i \in 1..Len(fresult.value) :
                                      StandsFor(i, name)}) = 1
               /\ \A i, j \in 1..Len(fresult.value) :
                      i < j => ~PathLess(fresult.value[j], fresult.value[i])

\* the first doctest: ['a', 'b', 'c', 'a'] with ['dir/c', 'dir/a'] gives
\* ['b', 'dir/a', 'dir/c']
Wit_C17 ==
    /\ fpc = "done"
    /\ fargs.files = << <<"a">>, <<"b">>, <<"c">>, <<"a">> >>
    /\ fargs.filespath = << <<"dir", "c">>, <<"dir", "a">> >>
    /\ fresult = FilesReturned(<< <<"b">>, <<"dir", "a">>, <<"dir", "c">> >>)

\* the archive was asked for
ArchiveAsked == gargs.option \in {"data", "archive"}

\* the directory of the call with the file '<exp_id>.tar.gz' holding the
\* bytes the server answered
DirectoryWithArchive ==
    [n \in DOMAIN gargs.directory \cup {IntToStr(gargs.exp_id) \o ".tar.gz"} |->
        IF n = IntToStr(gargs.exp_id) \o ".tar.gz" THEN gapi[1].answer.v
        ELSE gargs.directory[n]]

(***************************************************************************)
(* C18 as stated: get_experiment, asked for the archive (option 'data' in  *)
(* experiment.py, command 'archive' in experiment_parser.py), writes the   *)
(* bytes received, unchanged, in '<exp_id>.tar.gz' and returns 'Written';  *)
(* for any other option it writes nothing and returns the api's answer.    *)
(***************************************************************************)
CE_C18_ArchiveWritten ==
    gpc = "done" =>
        IF ArchiveAsked
        THEN fs = DirectoryWithArchive /\ gresult = Str("Written")
        ELSE fs = gargs.directory /\ gresult = gapi[1].answer

\* the same statement for experiment.py alone
ArchiveWrittenByExperimentPy ==
    gargs.impl = "experiment" => CE_C18_ArchiveWritten

(***************************************************************************)
(* add_exp_resources, with the experiment each call started from           *)
(*   - hist keeps, beside the group and the exception, the experiment as   *)
(*     it was when the call began;                                         *)
(*   - the groups are those of Resources and groups that give a mobility   *)
(*     association alone.                                                  *)
(***************************************************************************)
\* exp_resources(nodes, None, None, mobility='m2')
MobilityOnly ==
    { exp_resources(n, None, None, << <<"mobility", <<"m2">> >> >>) :
        n \in {PyList(l) : l \in NodeLists} \cup AliasObjects }

ResourcesGiven == Resources \cup MobilityOnly

\* experiment = _Experiment('test', 20), no group added yet
InitAdd ==
    /\ exp = _Experiment(Some("test"), 20, None)
    /\ hist = <<>>
    /\ pc = "adding"
    /\ desc = None
    /\ loaded = None
    /\ redump = None
    /\ files = None
    /\ WaitIdle
    /\ AliasIdle
    /\ SubmitIdle
    /\ FilesIdle
    /\ GetIdle

\* experiment.add_exp_resources(resources), the caller catching what it raises
AddExpResourcesFrom ==
    /\ pc = "adding"
    /\ Len(hist) < MaxAdds
    /\ \E resources \in ResourcesGiven :
         LET r == add_exp_resources(exp, resources)
         IN  /\ exp' = r.exp
             /\ hist' = Append(hist, [resources |-> resources,
                                      err       |-> r.err,
                                      before    |-> exp])
    /\ UNCHANGED <<pc, desc, loaded, redump, files>>
    /\ UNCHANGED nonExpVars

NextAdd == AddExpResourcesFrom

SpecAdd == InitAdd /\ [][NextAdd]_vars

\* the last call made, and the experiment it started from
LastCall == hist[Len(hist)]

LastFailed == hist # <<>> /\ LastCall.err # NoError

\* type, nodes list and every association map of experiment e
BuiltPart(e) ==
    <<e.type, e.nodes, e.firmwareassociations, e.profileassociations,
      e.associations>>

\* the extra associations a group names before the one of type assoctype
RECURSIVE ItemsBefore(_, _)
ItemsBefore(items, assoctype) ==
    IF items = <<>> \/ items[1][1] = assoctype THEN <<>>
    ELSE <<items[1]>> \o ItemsBefore(Tail(items), assoctype)

\* group c.resources without the association that raised and those after it
UpToConflict(c) ==
    LET g == c.resources
        k == StageReached(c)
    IN  [g EXCEPT !.firmware = IF k <= 1 THEN None ELSE g.firmware,
                  !.profile = IF k <= 2 THEN None ELSE g.profile,
                  !.associations = IF k <= 2 THEN <<>>
                                   ELSE ItemsBefore(g.associations, c.err.msg)]

\* C21 as stated: when a call of add_exp_resources fails, the experiment's
\* type, nodes list and every association map are exactly as they were
\* before the call.
CE_C21_AtomicOnFailure ==
    LastFailed => BuiltPart(exp) = BuiltPart(LastCall.before)

\* C21, amended: a call that fails on a mode conflict or on a duplicate
\* node leaves the experiment as it was.  A call that fails on an
\* association conflict is a call on an alias group, and it leaves the
\* experiment as the same group would without the association that
\* raised and those after it: the type is set, the alias object is
\* appended to the nodes list, and the associations made before the
\* conflict stay.
Thm_C21_FailureLeavesEarlierSteps ==
    LastFailed =>
        LET c == LastCall
        IN  /\ (IsModeConflict(c) \/ IsDuplicateNode(c)) => exp = c.before
            /\ c.err.kind = "ConflictError" =>
                 /\ c.resources.type = "alias"
                 /\ exp.type = Some("alias")
                 /\ exp.nodes = Append(c.before.nodes, c.resources.nodes)
                 /\ add_exp_resources(c.before, UpToConflict(c)) =
                        [exp |-> exp, err |-> NoError]

\* a second group fails on its mobility association, after its alias object
\* was appended and its firmware and profile were associated
Wit_C21 ==
    /\ Len(hist) = 2
    /\ LastCall.err = ConflictError("mobility")
    /\ Len(exp.nodes) = 2
    /\ exp.firmwareassociations # LastCall.before.firmwareassociations
    /\ exp.profileassociations # LastCall.before.profileassociations
    /\ exp.associations = LastCall.before.associations

====
